---- MODULE Spec2Model ----
(***************************************************************************)
(* A model of the TradingAgents orchestrator (TradingAgentsGraph): the     *)
(* graph run that sequences analysts, the bull/bear debate, the research   *)
(* manager, the trader, the risk debate and the risk judge, and the        *)
(* per-role situation memories.                                            *)
(*                                                                         *)
(* Strings that the program builds by concatenation are sequences here:    *)
(* an argument f"Bull Analyst: {content}" is the pair <<tag, content>>,    *)
(* a history "h + \n + argument" is the sequence of its arguments, and     *)
(* the empty string is the empty sequence.                                 *)
(***************************************************************************)
EXTENDS Integers, Sequences, FiniteSets, TLC

\* ------------------------------------------------------------------ bounds
MaxRounds == 2
StepLimitLow == 3
StepLimitHigh == 16
MaxToolCalls == 2
MaxRecords == 2
MaxK == 2
MaxLearns == 1

Rounds == 1..MaxRounds
RecurLimits == {StepLimitLow, StepLimitHigh}
AnalystOrders == { <<"market", "social", "news", "fundamentals">>, <<"news">> }
Contents == {"c"}
\* The plan texts the trader may produce.
TraderPlans == {"p"}
Tickers == {"NVDA"}
Dates == {"2024-05-10"}

\* Decision texts are token sequences: MARK is the canonical marker phrase.
ActionTokens == {"BUY", "SELL", "HOLD"}
DecisionTexts ==
    { <<"w", "MARK", "BUY">>, <<"MARK", "BUY", "MARK", "SELL">>, <<"w", "w">> }
FallbackTexts == { <<"HOLD">>, <<"w">> }

Roles == {"bull", "bear", "trader", "invest_judge", "risk_manager"}
\* The role memories that receive direct remember / recall calls.
MemRoles == {"bull", "trader"}

VARIABLES
    config,             \* self.config
    conditional_logic,  \* self.conditional_logic
    propagator,         \* self.propagator
    debug,              \* self.debug
    selected_analysts,  \* the analysts the graph was set up with
    memory,             \* the five FinancialSituationMemory instances
    status,             \* idle | running | done | failed
    error,              \* the error a failed run raised
    next_node,          \* the node the engine invokes next
    steps,              \* node invocations of the current run
    state,              \* the DecisionState threaded through the run
    trace,              \* propagate's local "trace" (debug mode)
    visited,            \* the nodes invoked in this run, in order
    past_memories,      \* what each role's last get_memories returned
    curr_state,         \* self.curr_state
    decision,           \* the action label propagate returned
    mem_op,             \* the last direct call on a role memory, or learn
    last_run,           \* the last completed run: decision text, classification
    components,         \* what __init__ built before it returned or raised
    pending_call,       \* the tool the last analyst message asks for
    policy_log,         \* online_tools at run start, and as analysts read it
    ticker,             \* self.ticker
    log_states_dict,    \* self.log_states_dict: run date -> logged record
    files,              \* the log files written, by ticker and run date
    plan_read           \* the plan text each node of the risk phase has read

vars == <<config, conditional_logic, propagator, debug, selected_analysts,
          memory, status, error, next_node, steps, state, trace, visited,
          past_memories, curr_state, decision, mem_op, last_run,
          components, pending_call, policy_log, ticker, log_states_dict,
          files, plan_read>>

None == "None"
\* None where a DecisionState is expected (an unset state holds no report).
NoneState == [unset |-> TRUE]
EmptyStr == ""
\* A string with a speaker prefix, f"{tag}: {text}"; NoArgument is "".
Argument(tag, text) == <<tag, text>>
NoArgument == <<"", "">>
EmptyHistory == <<>>
EmptyDecision == <<>>

Last(s) == s[Len(s)]
Min(a, b) == IF a < b THEN a ELSE b

\* ------------------------------------------------------------------ nodes
Analysts == {"market", "social", "news", "fundamentals"}

AnalystNode(a) ==
    CASE a = "market" -> "Market Analyst"
      [] a = "social" -> "Social Analyst"
      [] a = "news" -> "News Analyst"
      [] a = "fundamentals" -> "Fundamentals Analyst"

ToolNode(a) ==
    CASE a = "market" -> "tools_market"
      [] a = "social" -> "tools_social"
      [] a = "news" -> "tools_news"
      [] a = "fundamentals" -> "tools_fundamentals"

ReportField(a) ==
    CASE a = "market" -> "market_report"
      [] a = "social" -> "sentiment_report"
      [] a = "news" -> "news_report"
      [] a = "fundamentals" -> "fundamentals_report"

Researchers == {"Bull Researcher", "Bear Researcher"}
Debators == {"Risky Analyst", "Safe Analyst", "Neutral Analyst"}

\* ------------------------------------------------------------ initial state
InitInvestDebateState ==
    [history |-> EmptyHistory, bull_history |-> EmptyHistory,
     bear_history |-> EmptyHistory, current_response |-> NoArgument,
     judge_decision |-> EmptyStr, count |-> 0]

InitRiskDebateState ==
    [history |-> EmptyHistory, risky_history |-> EmptyHistory,
     safe_history |-> EmptyHistory, neutral_history |-> EmptyHistory,
     latest_speaker |-> "",
     current_risky_response |-> NoArgument,
     current_safe_response |-> NoArgument,
     current_neutral_response |-> NoArgument,
     judge_decision |-> EmptyDecision, count |-> 0]

create_initial_state(company_name, trade_date) ==
    [messages |-> <<>>,
     company_of_interest |-> company_name,
     trade_date |-> trade_date,
     sender |-> "",
     market_report |-> EmptyStr,
     sentiment_report |-> EmptyStr,
     news_report |-> EmptyStr,
     fundamentals_report |-> EmptyStr,
     investment_debate_state |-> InitInvestDebateState,
     investment_plan |-> EmptyStr,
     trader_investment_plan |-> EmptyStr,
     risk_debate_state |-> InitRiskDebateState,
     final_trade_decision |-> EmptyDecision]

\* ------------------------------------------------------------------ memory
\* A situation text is the four reports joined by blank lines: a 4-tuple.
\* The embedding is a fixed function of the text that is not injective up to
\* direction: <<"c","","","">> and <<"c","c","","">> are different texts
\* with parallel embeddings (cosine 1).
Situations == { <<"c", "", "", "">>, <<"c", "c", "", "">>, <<"d", "", "", "">> }
Lessons == {"l1", "l2"}

CountWord(text, w) == Cardinality({i \in 1..Len(text) : text[i] = w})

get_embedding(text) == <<1 + CountWord(text, "c"), CountWord(text, "d")>>

Dot(u, v) == u[1] * v[1] + u[2] * v[2]

\* cos(q, x) > cos(q, y), cross-multiplied (all components are >= 0).
SimGreater(q, x, y) ==
    Dot(q, x) * Dot(q, x) * Dot(y, y) > Dot(q, y) * Dot(q, y) * Dot(x, x)

SimEqual(q, x, y) ==
    Dot(q, x) * Dot(q, x) * Dot(y, y) = Dot(q, y) * Dot(q, y) * Dot(x, x)

\* Mutant of RankedBefore: among equal similarities the older record first.
RankedBefore_OldestFirst(store, q, j, i) ==
    \/ SimGreater(q, store[j].embedding, store[i].embedding)
    \/ /\ SimEqual(q, store[j].embedding, store[i].embedding)
       /\ j < i

\* Record j is returned before record i: higher similarity, or the same
\* similarity and inserted later.
RankedBefore(store, q, j, i) ==
    \/ SimGreater(q, store[j].embedding, store[i].embedding)
    \/ /\ SimEqual(q, store[j].embedding, store[i].embedding)
       /\ j > i

Rank(store, q, i) ==
    Cardinality({j \in 1..Len(store) : RankedBefore(store, q, j, i)})

\* Mutant of get_memories: the first n_matches records in insertion order.
get_memories_FirstK(store, situation, n_matches) ==
    SubSeq(store, 1, Min(n_matches, Len(store)))

\* recall: the n_matches best records, best first; fewer when the store
\* holds fewer, the empty sequence when it holds none.
get_memories(store, situation, n_matches) ==
    LET q == get_embedding(situation)
    IN  [p \in 1..Min(n_matches, Len(store)) |->
            store[CHOOSE i \in 1..Len(store) : Rank(store, q, i) = p - 1]]

\* remember: embed the situation and append one record.
add_situation(store, situation, recommendation) ==
    Append(store, [embedding |-> get_embedding(situation),
                   situation |-> situation,
                   recommendation |-> recommendation])

\* The situation key of a node that reads the four reports.
curr_situation(s) ==
    <<s.market_report, s.sentiment_report, s.news_report, s.fundamentals_report>>

\* The risk manager reads news_report in place of fundamentals_report.
risk_manager_situation(s) ==
    <<s.market_report, s.sentiment_report, s.news_report, s.news_report>>

n_matches == 2

\* What a node makes of the records it recalled: the text it puts in its
\* prompt, or raised when building it fails.
Built(text) == [raised |-> FALSE, text |-> text]
Raised == [raised |-> TRUE, text |-> <<>>]

\* Mutant of past_memory_str: the two matches are indexed, not iterated.
past_memory_str_Indexed(past) ==
    IF Len(past) < n_matches
    THEN Raised
    ELSE Built([i \in 1..n_matches |-> past[i].recommendation])

\* bull, bear and the risk judge: the lessons of the recalled records, in
\* order, by a loop over the records (no record, empty text).
past_memory_str(past) ==
    Built([i \in 1..Len(past) |-> past[i].recommendation])

\* The trader: the same, with a fixed text when nothing was recalled.
trader_past_memory_str(past) ==
    IF past # <<>>
    THEN Built([i \in 1..Len(past) |-> past[i].recommendation])
    ELSE Built(<<"No past memories found.">>)

NoOp == [op |-> "none"]
NotConsulted == [recalled |-> <<>>, prompt |-> <<>>, situation |-> <<>>]

\* ------------------------------------------------------------ agent nodes
\* Mutant of analyst_node: the report is the content of the output, also
\* when the output asks for a tool.
analyst_node_ReportAlways(a, tool_calls, content) ==
    LET result == [sender |-> a, tool_calls |-> tool_calls, content |-> content]
    IN  (ReportField(a) :> content) @@ [messages |-> <<result>>]

\* Mutant of analyst_node: the output is not added to the message log.
analyst_node_NoMessage(a, tool_calls, content) ==
    LET report == IF ~tool_calls THEN content ELSE EmptyStr
    IN  (ReportField(a) :> report) @@ [messages |-> <<>>]

\* An analyst: report = content only when the output requests no tool.
analyst_node(a, tool_calls, content) ==
    LET result == [sender |-> a, tool_calls |-> tool_calls, content |-> content]
        report == IF ~tool_calls THEN content ELSE EmptyStr
    IN  (ReportField(a) :> report) @@ [messages |-> <<result>>]

tool_node(a) ==
    [messages |-> << [sender |-> ToolNode(a), tool_calls |-> FALSE,
                      content |-> "data"] >>]

\* Mutant of bull_node: the turn counter is raised by 2.
bull_node_CountsTwice(s, response) ==
    LET ids == s.investment_debate_state
        argument == Argument("Bull Analyst", response)
    IN  [investment_debate_state |->
            [history |-> Append(ids.history, argument),
             bull_history |-> Append(ids.bull_history, argument),
             bear_history |-> ids.bear_history,
             current_response |-> argument,
             count |-> ids.count + 2]]

bull_node(s, response) ==
    LET ids == s.investment_debate_state
        argument == Argument("Bull Analyst", response)
    IN  [investment_debate_state |->
            [history |-> Append(ids.history, argument),
             bull_history |-> Append(ids.bull_history, argument),
             bear_history |-> ids.bear_history,
             current_response |-> argument,
             count |-> ids.count + 1]]

\* Mutant of bear_node: the bull history is not carried over.
bear_node_DropsBullHistory(s, response) ==
    LET ids == s.investment_debate_state
        argument == Argument("Bear Analyst", response)
    IN  [investment_debate_state |->
            [history |-> Append(ids.history, argument),
             bear_history |-> Append(ids.bear_history, argument),
             bull_history |-> EmptyHistory,
             current_response |-> argument,
             count |-> ids.count + 1]]

\* Mutant of bear_node: the argument carries the bull prefix.
bear_node_BullPrefix(s, response) ==
    LET ids == s.investment_debate_state
        argument == Argument("Bull Analyst", response)
    IN  [investment_debate_state |->
            [history |-> Append(ids.history, argument),
             bear_history |-> Append(ids.bear_history, argument),
             bull_history |-> ids.bull_history,
             current_response |-> argument,
             count |-> ids.count + 1]]

bear_node(s, response) ==
    LET ids == s.investment_debate_state
        argument == Argument("Bear Analyst", response)
    IN  [investment_debate_state |->
            [history |-> Append(ids.history, argument),
             bear_history |-> Append(ids.bear_history, argument),
             bull_history |-> ids.bull_history,
             current_response |-> argument,
             count |-> ids.count + 1]]

research_manager_node(s, response) ==
    LET ids == s.investment_debate_state
    IN  [investment_debate_state |->
            [judge_decision |-> response,
             history |-> ids.history,
             bear_history |-> ids.bear_history,
             bull_history |-> ids.bull_history,
             current_response |-> Argument("", response),
             count |-> ids.count],
         investment_plan |-> response]

trader_node(s, content) ==
    [messages |-> << [sender |-> "Trader", tool_calls |-> FALSE,
                      content |-> content] >>,
     trader_investment_plan |-> content,
     sender |-> "Trader"]

risky_node(s, response) ==
    LET rds == s.risk_debate_state
        argument == Argument("Risky Analyst", response)
    IN  [risk_debate_state |->
            [history |-> Append(rds.history, argument),
             risky_history |-> Append(rds.risky_history, argument),
             safe_history |-> rds.safe_history,
             neutral_history |-> rds.neutral_history,
             latest_speaker |-> "Risky",
             current_risky_response |-> argument,
             current_safe_response |-> rds.current_safe_response,
             current_neutral_response |-> rds.current_neutral_response,
             count |-> rds.count + 1]]

\* Mutant of safe_node: the current responses of the other two debators are
\* cleared.
safe_node_ClearsOthers(s, response) ==
    LET rds == s.risk_debate_state
        argument == Argument("Safe Analyst", response)
    IN  [risk_debate_state |->
            [history |-> Append(rds.history, argument),
             risky_history |-> rds.risky_history,
             safe_history |-> Append(rds.safe_history, argument),
             neutral_history |-> rds.neutral_history,
             latest_speaker |-> "Safe",
             current_risky_response |-> NoArgument,
             current_safe_response |-> argument,
             current_neutral_response |-> NoArgument,
             count |-> rds.count + 1]]

\* Mutant of safe_node: the latest-speaker tag is left as "Risky".
safe_node_RiskyTag(s, response) ==
    LET rds == s.risk_debate_state
        argument == Argument("Safe Analyst", response)
    IN  [risk_debate_state |->
            [history |-> Append(rds.history, argument),
             risky_history |-> rds.risky_history,
             safe_history |-> Append(rds.safe_history, argument),
             neutral_history |-> rds.neutral_history,
             latest_speaker |-> "Risky",
             current_risky_response |-> rds.current_risky_response,
             current_safe_response |-> argument,
             current_neutral_response |-> rds.current_neutral_response,
             count |-> rds.count + 1]]

safe_node(s, response) ==
    LET rds == s.risk_debate_state
        argument == Argument("Safe Analyst", response)
    IN  [risk_debate_state |->
            [history |-> Append(rds.history, argument),
             risky_history |-> rds.risky_history,
             safe_history |-> Append(rds.safe_history, argument),
             neutral_history |-> rds.neutral_history,
             latest_speaker |-> "Safe",
             current_risky_response |-> rds.current_risky_response,
             current_safe_response |-> argument,
             current_neutral_response |-> rds.current_neutral_response,
             count |-> rds.count + 1]]

neutral_node(s, response) ==
    LET rds == s.risk_debate_state
        argument == Argument("Neutral Analyst", response)
    IN  [risk_debate_state |->
            [history |-> Append(rds.history, argument),
             risky_history |-> rds.risky_history,
             safe_history |-> rds.safe_history,
             neutral_history |-> Append(rds.neutral_history, argument),
             latest_speaker |-> "Neutral",
             current_risky_response |-> rds.current_risky_response,
             current_safe_response |-> rds.current_safe_response,
             current_neutral_response |-> argument,
             count |-> rds.count + 1]]

\* Mutant of risk_manager_node: the judge's output is counted and filed as one
\* more turn of the risk debate.
risk_manager_node_CountsTurn(s, content) ==
    LET rds == s.risk_debate_state
    IN  [risk_debate_state |->
            [judge_decision |-> content,
             history |-> Append(rds.history, Argument("Judge", "c")),
             risky_history |-> rds.risky_history,
             safe_history |-> rds.safe_history,
             neutral_history |-> rds.neutral_history,
             latest_speaker |-> "Judge",
             current_risky_response |-> rds.current_risky_response,
             current_safe_response |-> rds.current_safe_response,
             current_neutral_response |-> rds.current_neutral_response,
             count |-> rds.count + 1],
         final_trade_decision |-> content]

\* Mutant of risk_manager_node: the latest-speaker tag is left as it was and
\* the resolution is stored with a "Judge" prefix.
risk_manager_node_TagsResolution(s, content) ==
    LET rds == s.risk_debate_state
    IN  [risk_debate_state |->
            [judge_decision |-> <<"Judge">> \o content,
             history |-> rds.history,
             risky_history |-> rds.risky_history,
             safe_history |-> rds.safe_history,
             neutral_history |-> rds.neutral_history,
             latest_speaker |-> rds.latest_speaker,
             current_risky_response |-> rds.current_risky_response,
             current_safe_response |-> rds.current_safe_response,
             current_neutral_response |-> rds.current_neutral_response,
             count |-> rds.count],
         final_trade_decision |-> content]

\* Mutant of risk_manager_node: final_trade_decision is not returned.
risk_manager_node_NoDecision(s, content) ==
    LET rds == s.risk_debate_state
    IN  [risk_debate_state |->
            [judge_decision |-> content,
             history |-> rds.history,
             risky_history |-> rds.risky_history,
             safe_history |-> rds.safe_history,
             neutral_history |-> rds.neutral_history,
             latest_speaker |-> "Judge",
             current_risky_response |-> rds.current_risky_response,
             current_safe_response |-> rds.current_safe_response,
             current_neutral_response |-> rds.current_neutral_response,
             count |-> rds.count]]

risk_manager_node(s, content) ==
    LET rds == s.risk_debate_state
    IN  [risk_debate_state |->
            [judge_decision |-> content,
             history |-> rds.history,
             risky_history |-> rds.risky_history,
             safe_history |-> rds.safe_history,
             neutral_history |-> rds.neutral_history,
             latest_speaker |-> "Judge",
             current_risky_response |-> rds.current_risky_response,
             current_safe_response |-> rds.current_safe_response,
             current_neutral_response |-> rds.current_neutral_response,
             count |-> rds.count],
         final_trade_decision |-> content]

\* ------------------------------------------------------------------ router
IndexOf(seq, x) == CHOOSE i \in 1..Len(seq) : seq[i] = x

\* Mutant of NextAfterAnalyst: the debate opens after the first analyst that
\* has its report.
NextAfterAnalyst_OpensDebate(a) == "Bull Researcher"

\* The node after analyst a: the next selected analyst, or the first
\* researcher after the last one.
NextAfterAnalyst(a) ==
    LET i == IndexOf(selected_analysts, a)
    IN  IF i < Len(selected_analysts)
        THEN AnalystNode(selected_analysts[i + 1])
        ELSE "Bull Researcher"

\* Tool-call loop: the analyst's tool node when its last output requested a
\* capability, else advance.
should_continue_analyst(s, a) ==
    IF Len(s.messages) > 0 /\ Last(s.messages).tool_calls
    THEN ToolNode(a)
    ELSE NextAfterAnalyst(a)

StartsWith(argument, prefix) == argument[1] = prefix

\* Debate loop: the judge once count >= 2 * max_debate_rounds, else the
\* researcher that did not speak last.
should_continue_debate(s) ==
    IF s.investment_debate_state.count >= 2 * conditional_logic.max_debate_rounds
    THEN "Research Manager"
    ELSE IF StartsWith(s.investment_debate_state.current_response, "Bull Analyst")
         THEN "Bear Researcher"
         ELSE "Bull Researcher"

\* Risk loop: the judge once count >= 3 * max_risk_discuss_rounds, else the
\* round-robin successor of the latest speaker.
should_continue_risk_analysis(s) ==
    IF s.risk_debate_state.count >= 3 * conditional_logic.max_risk_discuss_rounds
    THEN "Risk Judge"
    ELSE IF s.risk_debate_state.latest_speaker = "Risky"
         THEN "Safe Analyst"
         ELSE IF s.risk_debate_state.latest_speaker = "Safe"
              THEN "Neutral Analyst"
              ELSE "Risky Analyst"

\* The edge table of the graph.
Route(node, s) ==
    IF \E a \in Analysts : node = AnalystNode(a)
    THEN should_continue_analyst(s, CHOOSE a \in Analysts : node = AnalystNode(a))
    ELSE IF \E a \in Analysts : node = ToolNode(a)
    THEN AnalystNode(CHOOSE a \in Analysts : node = ToolNode(a))
    ELSE IF node \in Researchers THEN should_continue_debate(s)
    ELSE IF node = "Research Manager" THEN "Trader"
    ELSE IF node = "Trader" THEN "Risky Analyst"
    ELSE IF node \in Debators THEN should_continue_risk_analysis(s)
    ELSE "END"

\* ------------------------------------------------------------------ engine
\* Merge of a node's patch: the message log is concatenated, every other
\* field of the patch overwrites, every other field of the state is kept.
\* Mutant of Merge: the message log is overwritten like any other field.
Merge_ReplacesMessages(s, patch) ==
    [f \in DOMAIN s |-> IF f \in DOMAIN patch THEN patch[f] ELSE s[f]]

Merge(s, patch) ==
    [f \in DOMAIN s |->
        IF f \in DOMAIN patch
        THEN IF f = "messages" THEN s[f] \o patch[f] ELSE patch[f]
        ELSE s[f]]

\* The ceiling on node invocations handed to the engine with the run.
get_graph_args == [recursion_limit |-> propagator.max_recur_limit]

ToolCallsMade(s) ==
    Cardinality({i \in 1..Len(s.messages) : s.messages[i].tool_calls})

\* ------------------------------------------------------------ signal
MarkerHits(text) ==
    {i \in 1..(Len(text) - 1) : text[i] = "MARK" /\ text[i + 1] \in ActionTokens}

MaxOf(S) == CHOOSE x \in S : \A y \in S : y <= x
MinOfHits(S) == CHOOSE x \in S : \A y \in S : x <= y

TokenHits(text) == {i \in 1..Len(text) : text[i] \in ActionTokens}

\* The fallback classification is asked when the text holds no marker.
uses_fallback(full_signal) == MarkerHits(full_signal) = {}

\* No classification was asked.
NotAsked == <<>>

\* No run has completed.
NoRun == [completed |-> FALSE, full_signal |-> <<>>, fallback |-> NotAsked,
          replaced |-> FALSE]

\* Mutant of process_signal: the token after the first marker.
process_signal_FirstMarker(full_signal, fallback) ==
    IF MarkerHits(full_signal) # {}
    THEN full_signal[MinOfHits(MarkerHits(full_signal)) + 1]
    ELSE IF TokenHits(fallback) # {}
         THEN fallback[MaxOf(TokenHits(fallback))]
         ELSE "UNKNOWN"

\* Mutant of process_signal: the classification's answer is returned as it
\* is when it holds no token.
process_signal_RawFallback(full_signal, fallback) ==
    IF MarkerHits(full_signal) # {}
    THEN full_signal[MaxOf(MarkerHits(full_signal)) + 1]
    ELSE IF TokenHits(fallback) # {}
         THEN fallback[MaxOf(TokenHits(fallback))]
         ELSE fallback[1]

\* The token after the last marker; without a marker, the token of the
\* fallback classification; without either, UNKNOWN.
process_signal(full_signal, fallback) ==
    IF MarkerHits(full_signal) # {}
    THEN full_signal[MaxOf(MarkerHits(full_signal)) + 1]
    ELSE IF TokenHits(fallback) # {}
         THEN fallback[MaxOf(TokenHits(fallback))]
         ELSE "UNKNOWN"

\* Mutant of DebugFinalState: the first traced chunk.
DebugFinalState_First(tr) == tr[1]

\* The terminal state propagate takes in debug mode: the last traced chunk.
DebugFinalState(tr) == tr[Len(tr)]

\* ------------------------------------------------------------------ actions
\* __init__: the state after construction.  conditional_logic and propagator
\* are built without arguments, so their limits are their own defaults, not
\* values read from config.
\* The llm_provider values of a configuration, and str.lower on them.
Providers == {"openai", "Ollama", "azure"}

lower(p) == IF p = "Ollama" THEN "ollama" ELSE p

\* The provider test of __init__: one of its three branches builds the models.
SupportedProvider(p) ==
    \/ lower(p) = "openai" \/ p = "ollama" \/ p = "openrouter"
    \/ lower(p) = "anthropic"
    \/ lower(p) = "google"

\* What __init__ builds, in the order of its statements.
InitOrder ==
    <<"config", "llms", "toolkit", "memories", "tool_nodes",
      "conditional_logic", "graph_setup", "propagator", "reflector",
      "signal_processor", "graph">>

\* Mutant of init_components: the provider is tested once the memories, the
\* router and the helpers exist, right before the graph is set up.
init_components_ChecksLast(llm_provider) ==
    IF SupportedProvider(llm_provider)
    THEN {InitOrder[i] : i \in 1..Len(InitOrder)}
    ELSE {InitOrder[i] : i \in 1..(IndexOf(InitOrder, "graph") - 1)}

\* The components __init__ has built when it returns, or when the provider
\* test raises ValueError in place of building the language models.
init_components(llm_provider) ==
    IF SupportedProvider(llm_provider)
    THEN {InitOrder[i] : i \in 1..Len(InitOrder)}
    ELSE {InitOrder[i] : i \in 1..(IndexOf(InitOrder, "llms") - 1)}

\* The round counts a configuration may carry.
ConfigRounds == 0..MaxRounds

\* The tools an analyst binds to its model, by the online_tools entry.
tools(a, online_tools) ==
    CASE a = "market" ->
            IF online_tools
            THEN {"get_YFin_data_online",
                  "get_stockstats_indicators_report_online"}
            ELSE {"get_YFin_data", "get_stockstats_indicators_report"}
      [] a = "social" ->
            IF online_tools
            THEN {"get_stock_news_openai"}
            ELSE {"get_reddit_stock_info"}
      [] a = "news" ->
            IF online_tools
            THEN {"get_global_news_openai", "get_google_news"}
            ELSE {"get_finnhub_news", "get_reddit_news", "get_google_news"}
      [] a = "fundamentals" ->
            IF online_tools
            THEN {"get_fundamentals_openai"}
            ELSE {"get_finnhub_company_insider_sentiment",
                  "get_finnhub_company_insider_transactions",
                  "get_simfin_balance_sheet",
                  "get_simfin_cashflow",
                  "get_simfin_income_stmt"}

\* Mutant of tool_nodes: each tool node holds the online tools only.
tool_nodes_OnlineOnly(a) == tools(a, TRUE)

\* The tools each analyst's tool node is created with.
tool_nodes(a) ==
    CASE a = "market" ->
            {"get_YFin_data_online", "get_stockstats_indicators_report_online",
             "get_YFin_data", "get_stockstats_indicators_report"}
      [] a = "social" ->
            {"get_stock_news_openai", "get_reddit_stock_info"}
      [] a = "news" ->
            {"get_global_news_openai", "get_google_news", "get_finnhub_news",
             "get_reddit_news"}
      [] a = "fundamentals" ->
            {"get_fundamentals_openai",
             "get_finnhub_company_insider_sentiment",
             "get_finnhub_company_insider_transactions",
             "get_simfin_balance_sheet",
             "get_simfin_cashflow",
             "get_simfin_income_stmt"}

\* No tool call is waiting for a tool node.
NoCall == ""

\* A dict with no key.
EmptyLog == [d \in {} |-> NoneState]

\* The nodes of the risk phase, and the plan text none of them has read yet.
RiskNodes == Debators \cup {"Risk Judge"}

NotRead == "unread"

NoPlans == [n \in RiskNodes |-> NotRead]

\* The state __init__ leaves for a configuration: the orchestrator, or the
\* ValueError of the provider test with nothing built after the configuration.
Constructed ==
    /\ config \in [max_debate_rounds : ConfigRounds,
                   max_risk_discuss_rounds : ConfigRounds,
                   max_recur_limit : RecurLimits,
                   llm_provider : Providers,
                   online_tools : BOOLEAN]
    /\ debug \in BOOLEAN
    /\ selected_analysts \in AnalystOrders
    /\ components = init_components(config.llm_provider)
    /\ IF "graph" \in components
       THEN /\ conditional_logic \in [max_debate_rounds : Rounds,
                                      max_risk_discuss_rounds : Rounds]
            /\ propagator \in [max_recur_limit : RecurLimits]
            /\ status = "idle"
            /\ error = None
       ELSE /\ conditional_logic = NoneState
            /\ propagator = NoneState
            /\ status = "config_error"
            /\ error = "ValueError"
    /\ memory = [r \in Roles |-> <<>>]
    /\ pending_call = NoCall
    /\ policy_log = [at_start |-> config.online_tools, offered |-> {}]
    /\ ticker = None
    /\ plan_read = NoPlans
    /\ log_states_dict = EmptyLog
    /\ files = EmptyLog
    /\ next_node = None
    /\ steps = 0
    /\ state = NoneState
    /\ trace = <<>>
    /\ visited = <<>>
    /\ past_memories = [r \in Roles |-> NotConsulted]
    /\ curr_state = NoneState
    /\ decision = None
    /\ mem_op = NoOp
    /\ last_run = NoRun

\* The orchestrator built from the default provider and tool policy, with
\* round counts of one or more.
Init ==
    /\ Constructed
    /\ config.llm_provider = "openai"
    /\ config.online_tools
    /\ config.max_debate_rounds >= 1
    /\ config.max_risk_discuss_rounds >= 1

Frame == UNCHANGED <<config, conditional_logic, propagator, debug,
                     components, ticker, log_states_dict, files,
                     selected_analysts, memory, curr_state, decision, mem_op,
                     last_run>>

\* Mutant of StartRun: a later run starts from the state the last completed
\* run left, with the new ticker and date.
StartRun_ReusesState(company_name, trade_date) ==
    /\ status' = "running"
    /\ state' = IF curr_state = NoneState
                THEN create_initial_state(company_name, trade_date)
                ELSE [curr_state EXCEPT !.company_of_interest = company_name,
                                        !.trade_date = trade_date]
    /\ next_node' = AnalystNode(selected_analysts[1])
    /\ steps' = 0
    /\ trace' = <<>>
    /\ visited' = <<>>
    /\ past_memories' = [r \in Roles |-> NotConsulted]
    /\ error' = None
    /\ mem_op' = NoOp
    /\ pending_call' = NoCall
    /\ policy_log' = [at_start |-> config.online_tools, offered |-> {}]
    /\ ticker' = company_name
    /\ plan_read' = NoPlans
    /\ UNCHANGED <<config, conditional_logic, propagator, debug,
                   components, log_states_dict, files,
                   selected_analysts, memory, curr_state, decision, last_run>>

\* Mutant of StartRun: the role memories are built anew with every run.
StartRun_NewMemories(company_name, trade_date) ==
    /\ status' = "running"
    /\ state' = create_initial_state(company_name, trade_date)
    /\ next_node' = AnalystNode(selected_analysts[1])
    /\ steps' = 0
    /\ trace' = <<>>
    /\ visited' = <<>>
    /\ past_memories' = [r \in Roles |-> NotConsulted]
    /\ error' = None
    /\ mem_op' = NoOp
    /\ memory' = [r \in Roles |-> <<>>]
    /\ pending_call' = NoCall
    /\ policy_log' = [at_start |-> config.online_tools, offered |-> {}]
    /\ ticker' = company_name
    /\ plan_read' = NoPlans
    /\ UNCHANGED <<config, conditional_logic, propagator, debug,
                   components, log_states_dict, files,
                   selected_analysts, curr_state, decision, last_run>>

\* propagate, up to the start of the graph run.
StartRun(company_name, trade_date) ==
    /\ status' = "running"
    /\ state' = create_initial_state(company_name, trade_date)
    /\ next_node' = AnalystNode(selected_analysts[1])
    /\ steps' = 0
    /\ trace' = <<>>
    /\ visited' = <<>>
    /\ past_memories' = [r \in Roles |-> NotConsulted]
    /\ error' = None
    /\ mem_op' = NoOp
    /\ pending_call' = NoCall
    /\ policy_log' = [at_start |-> config.online_tools, offered |-> {}]
    /\ ticker' = company_name
    /\ plan_read' = NoPlans
    /\ UNCHANGED <<config, conditional_logic, propagator, debug,
                   components, log_states_dict, files,
                   selected_analysts, memory, curr_state, decision, last_run>>

\* propagate called on a new orchestrator.
Propagate(company_name, trade_date) ==
    /\ status = "idle"
    /\ StartRun(company_name, trade_date)

\* propagate called again, after a run that completed or failed.
PropagateAgain(company_name, trade_date) ==
    /\ status \in {"done", "failed"}
    /\ StartRun(company_name, trade_date)

\* One node invocation: merge the patch, route, and (debug) trace the chunk.
Step(node, patch) ==
    /\ status = "running"
    /\ next_node = node
    /\ steps < get_graph_args.recursion_limit
    /\ LET merged == Merge(state, patch)
       IN  /\ state' = merged
           /\ next_node' = Route(node, merged)
           /\ trace' = IF debug /\ Len(merged.messages) # 0
                       THEN Append(trace, merged)
                       ELSE trace
    /\ steps' = steps + 1
    /\ visited' = Append(visited, node)
    /\ UNCHANGED <<status, error>>
    /\ Frame

\* Mutant of Fail: a run that fails clears the state held for learning.
Fail_ClearsCurrState(e) ==
    /\ status' = "failed"
    /\ error' = e
    /\ next_node' = None
    /\ state' = NoneState
    /\ trace' = <<>>
    /\ curr_state' = NoneState
    /\ UNCHANGED <<steps, visited, past_memories, pending_call, policy_log,
                   plan_read>>
    /\ UNCHANGED <<config, conditional_logic, propagator, debug,
                   components, ticker, log_states_dict, files,
                   selected_analysts, memory, decision, mem_op, last_run>>

\* The run is abandoned with an error: propagate raises, nothing is stored.
Fail(e) ==
    /\ status' = "failed"
    /\ error' = e
    /\ next_node' = None
    /\ state' = NoneState
    /\ trace' = <<>>
    /\ UNCHANGED <<steps, visited, past_memories, pending_call, policy_log,
                   plan_read>>
    /\ Frame

\* safe_node's trader_decision, the plan the debators argue about.
trader_decision(s) == s.trader_investment_plan

\* risk_manager_node's trader_plan, the plan the judge is asked to refine.
trader_plan(s) == s.investment_plan

\* A node of the risk phase reads its plan text from the state it is given.
Read(node, text) == plan_read' = [plan_read EXCEPT ![node] = text]

\* A node that consults its role memory: recall, build the prompt text, then
\* either fail on it or run as a step with some output of the node.
Consulted(role, situation, past, built) ==
    /\ past_memories' =
            [past_memories EXCEPT ![role] = [recalled |-> past,
                                             prompt |-> built.text,
                                             situation |-> situation]]
    /\ UNCHANGED <<pending_call, policy_log>>

\* An analyst invocation: the tools bound to the model are chosen by the
\* online_tools entry the toolkit's configuration holds at this moment; the
\* output either asks for one of them or carries the report.
AnalystStep(a) ==
    /\ status = "running"
    /\ next_node = AnalystNode(a)
    /\ \E tool_calls \in BOOLEAN, content \in Contents :
        /\ tool_calls => ToolCallsMade(state) < MaxToolCalls
        /\ Step(AnalystNode(a), analyst_node(a, tool_calls, content))
        /\ IF tool_calls
           THEN \E tool \in tools(a, config.online_tools) : pending_call' = tool
           ELSE pending_call' = NoCall
    /\ policy_log' = [policy_log EXCEPT
                          !.offered = @ \cup {config.online_tools}]
    /\ UNCHANGED <<past_memories, plan_read>>

\* The tool node of an analyst resolves the requested tool by name among the
\* tools it was created with.
ToolStep(a) ==
    /\ status = "running"
    /\ next_node = ToolNode(a)
    /\ IF pending_call \in tool_nodes(a)
       THEN /\ Step(ToolNode(a), tool_node(a))
            /\ pending_call' = NoCall
            /\ UNCHANGED <<past_memories, policy_log, plan_read>>
       ELSE Fail("ToolNotFound")

BullStep ==
    /\ status = "running"
    /\ next_node = "Bull Researcher"
    /\ steps < get_graph_args.recursion_limit
    /\ LET past == get_memories(memory["bull"], curr_situation(state), n_matches)
           built == past_memory_str(past)
       IN  IF built.raised
           THEN Fail("IndexError")
           ELSE /\ \E response \in Contents :
                    Step("Bull Researcher", bull_node(state, response))
                /\ Consulted("bull", curr_situation(state), past, built)
                /\ UNCHANGED plan_read

BearStep ==
    /\ status = "running"
    /\ next_node = "Bear Researcher"
    /\ steps < get_graph_args.recursion_limit
    /\ LET past == get_memories(memory["bear"], curr_situation(state), n_matches)
           built == past_memory_str(past)
       IN  IF built.raised
           THEN Fail("IndexError")
           ELSE /\ \E response \in Contents :
                    Step("Bear Researcher", bear_node(state, response))
                /\ Consulted("bear", curr_situation(state), past, built)
                /\ UNCHANGED plan_read

ResearchManagerStep ==
    /\ status = "running"
    /\ next_node = "Research Manager"
    /\ steps < get_graph_args.recursion_limit
    /\ LET past == get_memories(memory["invest_judge"], curr_situation(state),
                                n_matches)
           built == past_memory_str(past)
       IN  IF built.raised
           THEN Fail("IndexError")
           ELSE /\ \E response \in Contents :
                    Step("Research Manager", research_manager_node(state, response))
                /\ Consulted("invest_judge", curr_situation(state), past, built)
                /\ UNCHANGED plan_read

TraderStep ==
    /\ status = "running"
    /\ next_node = "Trader"
    /\ steps < get_graph_args.recursion_limit
    /\ LET past == get_memories(memory["trader"], curr_situation(state), n_matches)
           built == trader_past_memory_str(past)
       IN  IF built.raised
           THEN Fail("IndexError")
           ELSE /\ \E content \in TraderPlans :
                    Step("Trader", trader_node(state, content))
                /\ Consulted("trader", curr_situation(state), past, built)
                /\ UNCHANGED plan_read

RiskyStep ==
    /\ status = "running"
    /\ \E response \in Contents : Step("Risky Analyst", risky_node(state, response))
    /\ Read("Risky Analyst", trader_decision(state))
    /\ UNCHANGED <<past_memories, pending_call, policy_log>>

SafeStep ==
    /\ status = "running"
    /\ \E response \in Contents : Step("Safe Analyst", safe_node(state, response))
    /\ Read("Safe Analyst", trader_decision(state))
    /\ UNCHANGED <<past_memories, pending_call, policy_log>>

NeutralStep ==
    /\ status = "running"
    /\ \E response \in Contents : Step("Neutral Analyst", neutral_node(state, response))
    /\ Read("Neutral Analyst", trader_decision(state))
    /\ UNCHANGED <<past_memories, pending_call, policy_log>>

RiskJudgeStep ==
    /\ status = "running"
    /\ next_node = "Risk Judge"
    /\ steps < get_graph_args.recursion_limit
    /\ LET past == get_memories(memory["risk_manager"],
                                risk_manager_situation(state), n_matches)
           built == past_memory_str(past)
       IN  IF built.raised
           THEN Fail("IndexError")
           ELSE /\ \E content \in DecisionTexts :
                    Step("Risk Judge", risk_manager_node(state, content))
                /\ Consulted("risk_manager", risk_manager_situation(state),
                          past, built)
                /\ Read("Risk Judge", trader_plan(state))

\* The engine refuses the invocation that would exceed the ceiling.
StepLimitExceeded ==
    /\ status = "running"
    /\ next_node # "END"
    /\ steps >= get_graph_args.recursion_limit
    /\ Fail("StepLimitExceeded")

\* Mutant of NodeExecutionError: the engine notes the failure and invokes the
\* node again.
NodeExecutionError_Retried ==
    /\ status = "running"
    /\ next_node # "END"
    /\ steps < get_graph_args.recursion_limit
    /\ error' = "NodeExecutionError"
    /\ UNCHANGED <<status, next_node, state, trace, steps, visited,
                   past_memories, pending_call, policy_log, plan_read>>
    /\ Frame

\* The generation capability of the node about to run fails.
NodeExecutionError ==
    /\ status = "running"
    /\ next_node # "END"
    /\ steps < get_graph_args.recursion_limit
    /\ Fail("NodeExecutionError")

\* The record _log_state stores for a terminal state.
log_record(final_state) ==
    [company_of_interest |-> final_state.company_of_interest,
     trade_date |-> final_state.trade_date,
     market_report |-> final_state.market_report,
     sentiment_report |-> final_state.sentiment_report,
     news_report |-> final_state.news_report,
     fundamentals_report |-> final_state.fundamentals_report,
     investment_debate_state |->
        [bull_history |-> final_state.investment_debate_state.bull_history,
         bear_history |-> final_state.investment_debate_state.bear_history,
         history |-> final_state.investment_debate_state.history,
         current_response |->
            final_state.investment_debate_state.current_response,
         judge_decision |-> final_state.investment_debate_state.judge_decision],
     trader_investment_decision |-> final_state.trader_investment_plan,
     risk_debate_state |->
        [risky_history |-> final_state.risk_debate_state.risky_history,
         safe_history |-> final_state.risk_debate_state.safe_history,
         neutral_history |-> final_state.risk_debate_state.neutral_history,
         history |-> final_state.risk_debate_state.history,
         judge_decision |-> final_state.risk_debate_state.judge_decision],
     investment_plan |-> final_state.investment_plan,
     final_trade_decision |-> final_state.final_trade_decision]

\* Mutant of _log_state: the dict is started anew with every run.
_log_state_Resets(log, final_state) ==
    (final_state.trade_date :> log_record(final_state))

\* _log_state, the dict: the entry of the run date is set, the others kept.
_log_state(log, final_state) ==
    (final_state.trade_date :> log_record(final_state)) @@ log

\* _log_state, the file: the whole dict is dumped to the file of the ticker
\* and the run date.
written(fs, company_name, trade_date, log) ==
    (<<company_name, trade_date>> :> log) @@ fs

\* Mutant of Finish: self.curr_state is set by the first run only.
Finish_KeepsFirstState ==
    /\ status = "running"
    /\ next_node = "END"
    /\ IF debug /\ Len(trace) = 0
       THEN /\ status' = "failed"
            /\ error' = "IndexError"
            /\ UNCHANGED <<curr_state, decision, last_run, log_states_dict,
                           files>>
       ELSE \E fallback \in FallbackTexts :
            LET final_state == IF debug THEN DebugFinalState(trace) ELSE state
                full_signal == final_state.final_trade_decision
            IN  /\ curr_state' = IF curr_state = NoneState THEN final_state
                                                     ELSE curr_state
                /\ decision' = process_signal(full_signal, fallback)
                /\ last_run' =
                        [completed |-> TRUE,
                         full_signal |-> state.final_trade_decision,
                         fallback |-> IF uses_fallback(full_signal)
                                      THEN fallback ELSE NotAsked,
                         replaced |-> /\ curr_state # NoneState
                                      /\ curr_state # state]
                /\ log_states_dict' = _log_state(log_states_dict, final_state)
                /\ files' = written(files, ticker, state.trade_date,
                                    _log_state(log_states_dict, final_state))
                /\ status' = "done"
                /\ error' = None
    /\ trace' = <<>>
    /\ UNCHANGED <<config, conditional_logic, propagator, debug,
                   components, pending_call, policy_log, ticker, plan_read,
                   selected_analysts, memory, next_node, steps, state, visited,
                   past_memories, mem_op>>

\* propagate, after the graph run: take the terminal state, store it, and
\* return it with the extracted signal.  last_run keeps the decision text the
\* engine ended with, the answer of the fallback classification, when asked,
\* and whether the engine's terminal state differs from the state an earlier
\* run had left in self.curr_state.
Finish ==
    /\ status = "running"
    /\ next_node = "END"
    /\ IF debug /\ Len(trace) = 0
       THEN /\ status' = "failed"
            /\ error' = "IndexError"
            /\ UNCHANGED <<curr_state, decision, last_run, log_states_dict,
                           files>>
       ELSE \E fallback \in FallbackTexts :
            LET final_state == IF debug THEN DebugFinalState(trace) ELSE state
                full_signal == final_state.final_trade_decision
            IN  /\ curr_state' = final_state
                /\ decision' = process_signal(full_signal, fallback)
                /\ last_run' =
                        [completed |-> TRUE,
                         full_signal |-> state.final_trade_decision,
                         fallback |-> IF uses_fallback(full_signal)
                                      THEN fallback ELSE NotAsked,
                         replaced |-> /\ curr_state # NoneState
                                      /\ curr_state # state]
                /\ log_states_dict' = _log_state(log_states_dict, final_state)
                /\ files' = written(files, ticker, state.trade_date,
                                    _log_state(log_states_dict, final_state))
                /\ status' = "done"
                /\ error' = None
    /\ trace' = <<>>
    /\ UNCHANGED <<config, conditional_logic, propagator, debug,
                   components, pending_call, policy_log, ticker, plan_read,
                   selected_analysts, memory, next_node, steps, state, visited,
                   past_memories, mem_op>>

Next ==
    \/ \E c \in Tickers, d \in Dates : Propagate(c, d)
    \/ \E a \in Analysts : AnalystStep(a)
    \/ \E a \in Analysts : ToolStep(a)
    \/ BullStep
    \/ BearStep
    \/ ResearchManagerStep
    \/ TraderStep
    \/ RiskyStep
    \/ SafeStep
    \/ NeutralStep
    \/ RiskJudgeStep
    \/ StepLimitExceeded
    \/ NodeExecutionError
    \/ Finish

Spec == Init /\ [][Next]_vars

\* ------------------------------------------------------ memory operations
TotalRecords ==
    LET RECURSIVE Sum(_)
        Sum(S) == IF S = {} THEN 0
                  ELSE LET r == CHOOSE x \in S : TRUE
                       IN  Len(memory[r]) + Sum(S \ {r})
    IN  Sum(Roles)

\* remember(situation, lesson) on a role memory, between runs.
Remember(role, situation, recommendation) ==
    /\ status = "idle"
    /\ TotalRecords < MaxRecords
    /\ memory' = [memory EXCEPT
                    ![role] = add_situation(memory[role], situation, recommendation)]
    /\ mem_op' = [op |-> "remember", role |-> role, situation |-> situation,
                  recommendation |-> recommendation]
    /\ UNCHANGED <<config, conditional_logic, propagator, debug,
                   components, pending_call, policy_log, ticker, log_states_dict, files,
                   plan_read,
                   selected_analysts, status, error, next_node, steps, state,
                   trace, visited, past_memories, curr_state, decision,
                   last_run>>

\* The recall right before a recall(situation, k) on a store of the same
\* contents with the same situation and k, when there was one: its result.
SameRecallBefore(op, store, situation, k) ==
    IF /\ op.op = "recall"
       /\ op.situation = situation
       /\ op.k = k
       /\ op.store = store
    THEN [op |-> "recall", result |-> op.result]
    ELSE NoOp

\* Mutant of Recall: the records returned are taken out of the store.
Recall_Consuming(role, situation, k) ==
    /\ status = "idle"
    /\ mem_op' = [op |-> "recall", role |-> role, situation |-> situation,
                  k |-> k,
                  store |-> memory[role],
                  result |-> get_memories(memory[role], situation, k),
                  prev |-> IF mem_op.op = "remember" THEN mem_op ELSE NoOp,
                  prev_recall |-> SameRecallBefore(mem_op, memory[role],
                                                   situation, k)]
    /\ memory' = [memory EXCEPT ![role] =
                    SelectSeq(memory[role],
                        LAMBDA rec : \A i \in 1..Len(mem_op'.result) :
                                        mem_op'.result[i] # rec)]
    /\ UNCHANGED <<config, conditional_logic, propagator, debug,
                   components, pending_call, policy_log, ticker, log_states_dict, files,
                   plan_read,
                   selected_analysts, status, error, next_node, steps,
                   state, trace, visited, past_memories, curr_state, decision,
                   last_run>>

\* recall(situation, k) on a role memory, between runs; mem_op keeps the
\* store as it was at the call, the result, and the call that came right
\* before it (a remember, or a recall of the same on the same contents).
Recall(role, situation, k) ==
    /\ status = "idle"
    /\ mem_op' = [op |-> "recall", role |-> role, situation |-> situation,
                  k |-> k,
                  store |-> memory[role],
                  result |-> get_memories(memory[role], situation, k),
                  prev |-> IF mem_op.op = "remember" THEN mem_op ELSE NoOp,
                  prev_recall |-> SameRecallBefore(mem_op, memory[role],
                                                   situation, k)]
    /\ UNCHANGED <<config, conditional_logic, propagator, debug,
                   components, pending_call, policy_log, ticker, log_states_dict, files,
                   plan_read,
                   selected_analysts, memory, status, error, next_node, steps,
                   state, trace, visited, past_memories, curr_state, decision,
                   last_run>>

\* One orchestrator with the default round limits: memory calls, then a run.
InitMem ==
    /\ Init
    /\ config.max_debate_rounds = 1
    /\ config.max_risk_discuss_rounds = 1
    /\ config.max_recur_limit = StepLimitHigh
    /\ conditional_logic.max_debate_rounds = 1
    /\ conditional_logic.max_risk_discuss_rounds = 1
    /\ ~debug
    /\ selected_analysts = <<"news">>

NextMem ==
    \/ Next
    \/ \E role \in MemRoles, situation \in Situations, l \in Lessons :
            Remember(role, situation, l)
    \/ \E role \in MemRoles, situation \in Situations, k \in 1..MaxK :
            Recall(role, situation, k)

MemSpec == InitMem /\ [][NextMem]_vars

\* ------------------------------------------------------------ reflection
\* The order in which reflect_and_remember reflects the roles.
ReflectOrder == <<"bull", "bear", "trader", "invest_judge", "risk_manager">>

\* One role's reflection: the situation is built from the four reports of the
\* state, the lesson is derived, and the pair is remembered in the role's
\* memory.
reflect(store, current_state, lesson) ==
    add_situation(store, curr_situation(current_state), lesson)

\* Mutant of reflect_and_remember: an unset state is skipped silently.
reflect_and_remember_SkipsUnset(mems, current_state, lessons, fail_at) ==
    IF current_state = NoneState
    THEN [memory |-> mems, error |-> None, derived |-> 0]
    ELSE LET done == IF fail_at = 0 THEN Len(ReflectOrder) ELSE fail_at - 1
         IN  [memory |-> [r \in Roles |->
                            IF IndexOf(ReflectOrder, r) <= done
                            THEN reflect(mems[r], current_state, lessons[r])
                            ELSE mems[r]],
              error |-> IF fail_at = 0 THEN None ELSE "ReflectionError",
              derived |-> done]

\* Mutant of reflect_and_remember: the trader's reflection is handed the bull
\* researcher's memory.
reflect_and_remember_SharedMemory(mems, current_state, lessons, fail_at) ==
    IF current_state = NoneState
    THEN [memory |-> mems, error |-> "TypeError", derived |-> 0]
    ELSE LET done == IF fail_at = 0 THEN Len(ReflectOrder) ELSE fail_at - 1
             own == [r \in Roles |->
                        IF IndexOf(ReflectOrder, r) <= done /\ r # "trader"
                        THEN reflect(mems[r], current_state, lessons[r])
                        ELSE mems[r]]
         IN  [memory |-> IF IndexOf(ReflectOrder, "trader") <= done
                         THEN [own EXCEPT !["bull"] =
                                 reflect(@, current_state, lessons["trader"])]
                         ELSE own,
              error |-> IF fail_at = 0 THEN None ELSE "ReflectionError",
              derived |-> done]

\* reflect_and_remember: the five reflections, one after the other, on
\* self.curr_state.  Nothing is caught: reading the reports of an unset state
\* raises in the first reflection, and a lesson derivation that fails (the
\* fail_at-th, 0 for none) raises out of the call, the later roles left
\* undone.  The result is the memories, the error raised and the number of
\* lessons derived.
reflect_and_remember(mems, current_state, lessons, fail_at) ==
    IF current_state = NoneState
    THEN [memory |-> mems, error |-> "TypeError", derived |-> 0]
    ELSE LET done == IF fail_at = 0 THEN Len(ReflectOrder) ELSE fail_at - 1
         IN  [memory |-> [r \in Roles |->
                            IF IndexOf(ReflectOrder, r) <= done
                            THEN reflect(mems[r], current_state, lessons[r])
                            ELSE mems[r]],
              error |-> IF fail_at = 0 THEN None ELSE "ReflectionError",
              derived |-> done]

\* learn(returns_losses), whenever no run is in progress.  mem_op keeps the
\* state the call read, the record counts before it, the derivation that
\* failed and what the call raised.
Learn(lessons, fail_at) ==
    /\ status \in {"idle", "done", "failed"}
    /\ Len(memory[ReflectOrder[1]]) < MaxLearns
    /\ \A r \in Roles : Len(memory[r]) < MaxRecords
    /\ LET out == reflect_and_remember(memory, curr_state, lessons, fail_at)
       IN  /\ memory' = out.memory
           /\ mem_op' = [op |-> "learn",
                         state |-> curr_state,
                         before |-> [r \in Roles |-> Len(memory[r])],
                         lessons |-> lessons,
                         fail_at |-> fail_at,
                         error |-> out.error,
                         derived |-> out.derived]
    /\ UNCHANGED <<config, conditional_logic, propagator, debug,
                   components, pending_call, policy_log, ticker, log_states_dict, files,
                   plan_read,
                   selected_analysts, status, error, next_node, steps, state,
                   trace, visited, past_memories, curr_state, decision,
                   last_run>>

\* One orchestrator with the default round limits: runs, learn calls and
\* direct memory calls in any order.
InitLearn ==
    /\ Constructed
    /\ config.online_tools
    /\ config.max_debate_rounds = 1
    /\ config.max_risk_discuss_rounds = 1
    /\ config.max_recur_limit = StepLimitHigh
    /\ "graph" \in components =>
            /\ conditional_logic.max_debate_rounds = 1
            /\ conditional_logic.max_risk_discuss_rounds = 1
    /\ ~debug
    /\ selected_analysts = <<"news">>

\* The lessons the derivation yields and the texts of the direct memory calls
\* made next to learn calls.
LearnLessons ==
    { [bull |-> "l1_bull", bear |-> "l1_bear", trader |-> "l1_trader",
       invest_judge |-> "l1_invest_judge",
       risk_manager |-> "l1_risk_manager"] }
LearnSituations == { <<"c", "", "", "">> }
LearnMemRoles == {"trader"}

NextLearn ==
    \/ Next
    \/ \E c \in Tickers, d \in Dates : PropagateAgain(c, d)
    \/ \E lessons \in LearnLessons, fail_at \in 0..Len(ReflectOrder) :
            Learn(lessons, fail_at)
    \/ \E role \in LearnMemRoles, situation \in LearnSituations :
            Remember(role, situation, "l2")
    \/ \E role \in LearnMemRoles, situation \in LearnSituations, k \in 1..MaxK :
            Recall(role, situation, k)

LearnSpec == InitLearn /\ [][NextLearn]_vars

----------------------------------------------------------------------------
\* Configurations of any provider, tool policy and round counts; the caller
\* may rewrite the online_tools entry of the shared configuration at any time.

SetOnlineTools(online_tools) ==
    /\ status # "config_error"
    /\ online_tools # config.online_tools
    /\ config' = [config EXCEPT !.online_tools = online_tools]
    /\ UNCHANGED <<conditional_logic, propagator, debug, selected_analysts,
                   memory, status, error, next_node, steps, state, trace,
                   visited, past_memories, curr_state, decision, mem_op,
                   last_run, components, pending_call, policy_log, ticker,
                   plan_read,
                   log_states_dict, files>>

InitConfig ==
    /\ Constructed
    /\ config.max_recur_limit = StepLimitHigh
    /\ ~debug
    /\ "graph" \in components =>
            /\ conditional_logic.max_debate_rounds = 1
            /\ conditional_logic.max_risk_discuss_rounds = 1

NextConfig ==
    \/ Next
    \/ \E online_tools \in BOOLEAN : SetOnlineTools(online_tools)

ConfigSpec == InitConfig /\ [][NextConfig]_vars


\* ------------------------------------------------------------ run history
Active == status \in {"running", "done"}

Indices(nodes) == {i \in 1..Len(visited) : visited[i] \in nodes}

Invocations(nodes) == Cardinality(Indices(nodes))

MinOf(S) == CHOOSE x \in S : \A y \in S : x <= y

\* Invocations of nodes of `nodes` before the first invocation of `judge`.
InvocationsBefore(nodes, judge) ==
    Cardinality({i \in Indices(nodes) : i < MinOf(Indices({judge}))})

\* The k-th invocation among the nodes of `nodes`.
Turn(nodes, k) ==
    visited[CHOOSE i \in Indices(nodes) :
                Cardinality({j \in Indices(nodes) : j <= i}) = k]

\* ------------------------------------------------------------------ claims

\* C1: for every configured max_debate_rounds = m, a run that reaches the
\* research judge has invoked bull and bear exactly 2m times before it, each
\* invocation adding exactly 1 to the turn counter, and the judge runs
\* exactly once.
C1_DebateTurnsAsConfigured ==
    Active =>
        /\ state.investment_debate_state.count = Invocations(Researchers)
        /\ "Research Manager" \in {visited[i] : i \in 1..Len(visited)} =>
            /\ InvocationsBefore(Researchers, "Research Manager")
                   = 2 * config.max_debate_rounds
            /\ Invocations({"Research Manager"}) = 1

\* C2: for every configured max_risk_discuss_rounds = r, a run that reaches
\* the risk judge has invoked the three debators exactly 3r times before it,
\* each invocation adding exactly 1 to the turn counter, and the risk judge
\* runs exactly once.
C2_RiskTurnsAsConfigured ==
    Active =>
        /\ state.risk_debate_state.count = Invocations(Debators)
        /\ "Risk Judge" \in {visited[i] : i \in 1..Len(visited)} =>
            /\ InvocationsBefore(Debators, "Risk Judge")
                   = 3 * config.max_risk_discuss_rounds
            /\ Invocations({"Risk Judge"}) = 1

\* C3: a run never makes more node invocations than the configured ceiling
\* config.max_recur_limit, and a run stopped by the step limit has failed
\* with StepLimitExceeded and produced no decision.
C3_StepLimitAsConfigured ==
    /\ steps <= config.max_recur_limit
    /\ error = "StepLimitExceeded" =>
        /\ status = "failed"
        /\ decision = None
        /\ curr_state = NoneState

\* C4: the researchers alternate strictly, starting with bull: turn 1 is
\* bull, no two consecutive turns are taken by the same role, and the turn
\* after a "Bull Analyst" response is bear, after a "Bear Analyst" response
\* bull.
C4_StrictAlternation ==
    Active =>
        LET h == state.investment_debate_state.history
            n == Invocations(Researchers)
        IN  /\ Len(h) = n
            /\ n >= 1 => Turn(Researchers, 1) = "Bull Researcher"
            /\ \A k \in 1..(n - 1) :
                /\ Turn(Researchers, k) # Turn(Researchers, k + 1)
                /\ h[k][1] = "Bull Analyst"
                       => Turn(Researchers, k + 1) = "Bear Researcher"
                /\ h[k][1] = "Bear Analyst"
                       => Turn(Researchers, k + 1) = "Bull Researcher"

C4_Witness ==
    /\ Active
    /\ Invocations(Researchers) >= 4
    /\ Turn(Researchers, 3) = "Bull Researcher"
    /\ Turn(Researchers, 4) = "Bear Researcher"

\* C5: after a researcher turn the router sends the run to the research
\* judge exactly when the turn counter is >= 2 * max_debate_rounds (the limit
\* the router holds); below it the next node is a researcher, also when bull
\* and bear have spoken equally often, and the judge is never reached before
\* 2 * max_debate_rounds turns were taken.
C5_JudgeExactlyAtThreshold ==
    (status = "running" /\ Len(visited) > 0 /\ Last(visited) \in Researchers) =>
        LET ids == state.investment_debate_state
            limit == 2 * conditional_logic.max_debate_rounds
        IN  /\ (next_node = "Research Manager") <=> (ids.count >= limit)
            /\ ids.count < limit => next_node \in Researchers
            /\ next_node = "Research Manager"
                   => Invocations(Researchers) >= limit

C5_Witness ==
    /\ status = "running"
    /\ Len(visited) > 0
    /\ Last(visited) \in Researchers
    /\ Len(state.investment_debate_state.bull_history)
           = Len(state.investment_debate_state.bear_history)
    /\ state.investment_debate_state.count
           < 2 * conditional_logic.max_debate_rounds
    /\ next_node = "Bull Researcher"

\* C6: the risk debate is the round robin risky -> safe -> neutral -> risky,
\* decided by the latest-speaker tag alone: the first speaker is risky, and
\* while the counter is below 3 * max_risk_discuss_rounds (the limit the
\* router holds) safe follows risky, neutral follows safe and risky follows
\* neutral; at the limit the router routes to the risk judge.
C6_RiskRoundRobin ==
    (status = "running" /\ Len(visited) > 0) =>
        LET rds == state.risk_debate_state
            limit == 3 * conditional_logic.max_risk_discuss_rounds
        IN  /\ Last(visited) = "Trader" => next_node = "Risky Analyst"
            /\ Last(visited) \in Debators =>
                IF rds.count >= limit
                THEN next_node = "Risk Judge"
                ELSE /\ Last(visited) = "Risky Analyst"
                            => next_node = "Safe Analyst"
                     /\ Last(visited) = "Safe Analyst"
                            => next_node = "Neutral Analyst"
                     /\ Last(visited) = "Neutral Analyst"
                            => next_node = "Risky Analyst"
                     /\ rds.latest_speaker = "Risky"
                            => next_node = "Safe Analyst"
                     /\ rds.latest_speaker = "Safe"
                            => next_node = "Neutral Analyst"
                     /\ rds.latest_speaker = "Neutral"
                            => next_node = "Risky Analyst"

C6_Witness ==
    /\ status = "running"
    /\ Len(visited) > 0
    /\ Last(visited) = "Safe Analyst"
    /\ state.risk_debate_state.count = 5
    /\ state.risk_debate_state.latest_speaker = "Safe"
    /\ next_node = "Neutral Analyst"

\* C7: after an analyst the last message is that analyst's output; when it
\* requests a tool the next node is the analyst's tool node, otherwise the
\* next selected analyst (the first researcher after the last analyst); after
\* a tool node the next node is the same analyst.
C7_ToolLoopRouting ==
    (status = "running" /\ Len(visited) > 0) =>
        \A a \in Analysts :
            /\ Last(visited) = AnalystNode(a) =>
                /\ Len(state.messages) > 0
                /\ Last(state.messages).sender = a
                /\ Last(state.messages).tool_calls
                       => next_node = ToolNode(a)
                /\ ~Last(state.messages).tool_calls
                       => LET i == IndexOf(selected_analysts, a)
                          IN  next_node =
                                IF i < Len(selected_analysts)
                                THEN AnalystNode(selected_analysts[i + 1])
                                ELSE "Bull Researcher"
            /\ Last(visited) = ToolNode(a) => next_node = AnalystNode(a)

C7_Witness ==
    /\ status = "running"
    /\ Len(visited) >= 3
    /\ visited[Len(visited) - 2] = "Market Analyst"
    /\ visited[Len(visited) - 1] = "tools_market"
    /\ visited[Len(visited)] = "Market Analyst"
    /\ next_node = "Social Analyst"

\* C8: in observation (debug) mode as in standard mode, the state propagate
\* stores and returns is the state after the last node invocation, the last
\* node being the risk judge, and the action label is the signal extracted
\* from that state's final decision.
C8_DebugModeSameResult ==
    status = "done" =>
        /\ curr_state = state
        /\ Last(visited) = "Risk Judge"
        /\ \E fallback \in FallbackTexts :
            decision = process_signal(state.final_trade_decision, fallback)

C8_Witness ==
    /\ status = "done"
    /\ debug
    /\ Len(visited) > 9
    /\ decision = "SELL"

ConsultingNodes ==
    {"Bull Researcher", "Bear Researcher", "Research Manager", "Trader",
     "Risk Judge"}

AllMemoriesEmpty == \A r \in Roles : memory[r] = <<>>

\* C9: after any remember calls, a recall(q, k) returns at most k records
\* and at most as many as the store holds, and the empty sequence on an empty
\* store; what a node recalls obeys the same bounds with k = n_matches, no
\* node fails on what it recalled, and a run on empty memories that completes
\* has the output of every memory-consulting node.
C9_RecallBoundedEmptyOk ==
    /\ mem_op.op = "recall" =>
        /\ Len(mem_op.result) <= mem_op.k
        /\ Len(mem_op.result) <= Len(memory[mem_op.role])
        /\ memory[mem_op.role] = <<>> => mem_op.result = <<>>
    /\ \A r \in Roles :
        /\ Len(past_memories[r].recalled) <= n_matches
        /\ Len(past_memories[r].recalled) <= Len(memory[r])
    /\ status = "failed" => error \in {"StepLimitExceeded", "NodeExecutionError"}
    /\ (status = "done" /\ AllMemoriesEmpty) =>
        /\ ConsultingNodes \subseteq {visited[i] : i \in 1..Len(visited)}
        /\ \A r \in Roles : past_memories[r].recalled = <<>>
        /\ state.investment_debate_state.bull_history # EmptyHistory
        /\ state.investment_debate_state.bear_history # EmptyHistory
        /\ state.investment_debate_state.judge_decision # EmptyStr
        /\ state.trader_investment_plan # EmptyStr
        /\ state.final_trade_decision # EmptyDecision

C9_Witness ==
    /\ status = "done"
    /\ AllMemoriesEmpty
    /\ past_memories["trader"].prompt = <<"No past memories found.">>
    /\ past_memories["bull"].prompt = <<>>
    /\ Len(visited) = 9

\* C10: a recall(s, k), k >= 1, made right after remember(s, l) on the same
\* memory with the same situation text returns a result that contains the
\* record (s, l).
C10_RememberThenRecall ==
    (/\ mem_op.op = "recall"
     /\ mem_op.prev.op = "remember"
     /\ mem_op.prev.role = mem_op.role
     /\ mem_op.prev.situation = mem_op.situation
     /\ mem_op.k >= 1) =>
        \E i \in 1..Len(mem_op.result) :
            /\ mem_op.result[i].situation = mem_op.prev.situation
            /\ mem_op.result[i].recommendation = mem_op.prev.recommendation

\* The recall of C10 with an older record of equal similarity in the store
\* and k = 1, so that only the tie-break keeps the new record.
C10_Witness ==
    /\ mem_op.op = "recall"
    /\ mem_op.prev.op = "remember"
    /\ mem_op.prev.role = mem_op.role
    /\ mem_op.prev.situation = mem_op.situation
    /\ mem_op.k = 1
    /\ Len(memory[mem_op.role]) >= 2
    /\ memory[mem_op.role][1].situation # mem_op.situation
    /\ SimEqual(get_embedding(mem_op.situation),
                memory[mem_op.role][1].embedding,
                memory[mem_op.role][2].embedding)
    /\ mem_op.result[1].recommendation = mem_op.prev.recommendation

\* C11: the result of recall(q, k) is made of distinct stored records, in
\* order of decreasing similarity to the query and, among records of equal
\* similarity, most recently inserted first; it has min(k, size) records, and
\* no record left out is more similar than one returned, or as similar and
\* more recent (of more than k tied records the k most recent are kept).
C11_RecallOrdered ==
    mem_op.op = "recall" =>
        LET store == mem_op.store
            q == get_embedding(mem_op.situation)
            res == mem_op.result
            e(i) == store[i].embedding
        IN  /\ Len(res) = Min(mem_op.k, Len(store))
            /\ \E idx \in [1..Len(res) -> 1..Len(store)] :
                /\ \A p \in 1..Len(res) : res[p] = store[idx[p]]
                /\ \A p, r \in 1..Len(res) :
                    p < r =>
                        /\ idx[p] # idx[r]
                        /\ ~SimGreater(q, e(idx[r]), e(idx[p]))
                        /\ SimEqual(q, e(idx[r]), e(idx[p])) => idx[p] > idx[r]
                /\ \A j \in 1..Len(store) :
                    (\A p \in 1..Len(res) : idx[p] # j) =>
                        \A p \in 1..Len(res) :
                            /\ ~SimGreater(q, e(j), e(idx[p]))
                            /\ SimEqual(q, e(j), e(idx[p])) => idx[p] > j

\* A recall with k = 1 on a store of two different records of equal
\* similarity to the query, not made right after a remember: the later one
\* is the one returned.
C11_Witness ==
    /\ mem_op.op = "recall"
    /\ mem_op.prev.op = "none"
    /\ mem_op.k = 1
    /\ Len(mem_op.store) = 2
    /\ mem_op.store[1] # mem_op.store[2]
    /\ SimEqual(get_embedding(mem_op.situation),
                mem_op.store[1].embedding, mem_op.store[2].embedding)
    /\ mem_op.result = <<mem_op.store[2]>>

C13_MemoryAppendOnly ==
    /\ AllMemoriesEmpty
    /\ [][/\ \A r \in Roles :
              /\ Len(memory'[r]) >= Len(memory[r])
              /\ SubSeq(memory'[r], 1, Len(memory[r])) = memory[r]
          /\ memory' # memory =>
              /\ mem_op'.op \in {"remember", "learn"}
              /\ status # "running"
              /\ status' = status]_vars

\* A memory holding a record written by remember and, after it, a record
\* written by a learn that followed a completed run.
C13_Witness ==
    /\ mem_op.op = "learn"
    /\ last_run.completed
    /\ Len(memory["trader"]) = 2
    /\ memory["trader"][1].recommendation = "l2"
    /\ memory["trader"][2].recommendation = "l1_trader"
    /\ Len(memory["bull"]) = 1

\* C14: a learn call made after a completed run leaves each of the five role
\* memories with exactly one record more than it held before the call.
C14_LearnAddsOnePerRole ==
    (mem_op.op = "learn" /\ mem_op.state # NoneState) =>
        \A r \in Roles : Len(memory[r]) = mem_op.before[r] + 1

\* C15: a learn call in which the lesson derivation of one role fails does
\* not raise, and each of the other four role memories has received its
\* record, whichever role fails.
C15_LearnIsolatesFailure ==
    (mem_op.op = "learn" /\ mem_op.state # NoneState /\ mem_op.fail_at # 0) =>
        /\ mem_op.error = None
        /\ \A r \in Roles \ {ReflectOrder[mem_op.fail_at]} :
            Len(memory[r]) = mem_op.before[r] + 1

C17_LearnReadsLatestRun ==
    /\ status = "done" => curr_state = state
    /\ last_run.completed =>
        /\ curr_state # NoneState
        /\ curr_state.final_trade_decision = last_run.full_signal
    /\ mem_op.op = "learn" =>
        /\ mem_op.state = curr_state
        /\ \A r \in Roles :
            Len(memory[r]) > mem_op.before[r] =>
                Last(memory[r]).situation = curr_situation(curr_state)

\* A learn call after a second completed run whose terminal state differs
\* from the one the first run had left.
C17_Witness ==
    /\ status = "done"
    /\ last_run.replaced
    /\ mem_op.op = "learn"
    /\ mem_op.error = None
    /\ mem_op.state = state

\* C18: when the final decision text of a completed run holds the marker
\* followed by an action token, the label returned is the token that follows
\* the last such marker, and the fallback classification was not asked.
C18_LastMarkerWins ==
    (status = "done" /\ MarkerHits(curr_state.final_trade_decision) # {}) =>
        LET text == curr_state.final_trade_decision
        IN  /\ \E i \in MarkerHits(text) :
                /\ \A j \in MarkerHits(text) : j <= i
                /\ decision = text[i + 1]
            /\ last_run.fallback = NotAsked

\* The text with the marker and BUY, then the marker and SELL: SELL.
C18_Witness ==
    /\ status = "done"
    /\ curr_state.final_trade_decision = <<"MARK", "BUY", "MARK", "SELL">>
    /\ decision = "SELL"
    /\ last_run.fallback = NotAsked

\* C19: the label of a completed run is one of BUY, SELL, HOLD and UNKNOWN;
\* when the decision text holds no marker and the answer of the fallback
\* classification holds no action token the label is UNKNOWN and the run has
\* completed with its terminal state all the same; no run fails other than
\* by the step limit or a node that could not produce its output.
C19_ExtractTotal ==
    /\ status = "done" =>
        /\ decision \in ActionTokens \cup {"UNKNOWN"}
        /\ (/\ uses_fallback(curr_state.final_trade_decision)
            /\ TokenHits(last_run.fallback) = {}) =>
                /\ decision = "UNKNOWN"
                /\ curr_state = state
                /\ Last(visited) = "Risk Judge"
    /\ status = "failed" => error \in {"StepLimitExceeded", "NodeExecutionError"}

\* A completed run whose decision text holds no marker and whose fallback
\* classification names no action.
C19_Witness ==
    /\ status = "done"
    /\ curr_state.final_trade_decision = <<"w", "w">>
    /\ last_run.fallback = <<"w">>
    /\ decision = "UNKNOWN"

\* The risk judge's output holds the marker followed by an action token.
WellFormedOutputs == MarkerHits(state.risk_debate_state.judge_decision) # {}

\* C20: a run makes one more node invocation with every step and never more
\* than the ceiling, so it ends; and a run configured with m = 1, r = 1 and
\* the four analysts that completes on well-formed outputs has the four
\* reports, exactly one research-judge resolution, exactly one trader plan,
\* exactly one risk-judge resolution (the final decision), and a label among
\* BUY, SELL and HOLD.
C20_EndToEnd ==
    /\ [][(status = "running" /\ status' = "running") => steps' = steps + 1]_vars
    /\ [](status = "running" => steps <= get_graph_args.recursion_limit)
    /\ []((/\ status = "done"
            /\ config.max_debate_rounds = 1
            /\ config.max_risk_discuss_rounds = 1
            /\ Len(selected_analysts) = Cardinality(Analysts)
            /\ WellFormedOutputs) =>
                /\ \A a \in Analysts : state[ReportField(a)] # EmptyStr
                /\ Invocations({"Research Manager"}) = 1
                /\ state.investment_debate_state.judge_decision # EmptyStr
                /\ state.investment_plan # EmptyStr
                /\ Invocations({"Trader"}) = 1
                /\ state.trader_investment_plan # EmptyStr
                /\ Invocations({"Risk Judge"}) = 1
                /\ state.final_trade_decision = state.risk_debate_state.judge_decision
                /\ curr_state = state
                /\ decision \in ActionTokens)

\* The completed run of C20 with one round of each debate: four analysts,
\* bull, bear, research judge, trader, three debators, risk judge.
C20_Witness ==
    /\ status = "done"
    /\ config.max_debate_rounds = 1
    /\ config.max_risk_discuss_rounds = 1
    /\ conditional_logic.max_debate_rounds = 1
    /\ conditional_logic.max_risk_discuss_rounds = 1
    /\ Len(selected_analysts) = Cardinality(Analysts)
    /\ WellFormedOutputs
    /\ Len(visited) = 12
    /\ decision = "BUY"

----------------------------------------------------------------------------
\* Runs one after the other on one orchestrator, for one ticker and two run
\* dates.

RunDates == {"2024-05-10", "2024-05-11"}

InitLog ==
    /\ Init
    /\ config.max_debate_rounds = 1
    /\ config.max_risk_discuss_rounds = 1
    /\ config.max_recur_limit = StepLimitHigh
    /\ conditional_logic.max_debate_rounds = 1
    /\ conditional_logic.max_risk_discuss_rounds = 1
    /\ selected_analysts = <<"news">>

NextLog ==
    \/ Next
    \/ \E c \in Tickers, d \in RunDates : PropagateAgain(c, d)

LogSpec == InitLog /\ [][NextLog]_vars

----------------------------------------------------------------------------
\* C21: an orchestrator constructed with a provider that is not supported
\* fails at construction with ValueError before any role memory, the router or
\* the graph is built, and no run, learn or memory call ever starts on it.
C21_UnsupportedProviderFailsAtConstruction ==
    ~SupportedProvider(config.llm_provider) =>
        /\ status = "config_error"
        /\ error = "ValueError"
        /\ components \cap {"memories", "conditional_logic", "graph_setup",
                            "graph"} = {}
        /\ steps = 0
        /\ visited = <<>>
        /\ state = NoneState
        /\ mem_op = NoOp
        /\ \A r \in Roles : memory[r] = <<>>

C21_Witness ==
    /\ config.llm_provider = "Ollama"
    /\ status = "config_error"
    /\ components = {"config"}

\* C22: an orchestrator whose configuration carries a round count below one
\* fails at construction with a configuration error.
C22_InvalidRoundsFailAtConstruction ==
    (config.max_debate_rounds < 1 \/ config.max_risk_discuss_rounds < 1) =>
        status = "config_error"

\* C23: when the generation capability of a node fails, the run ends with
\* NodeExecutionError in that step: no node is invoked by it or left to
\* invoke, and the run leaves no terminal state and no action label.
C23_NodeFailureEndsRun ==
    /\ [](error = "NodeExecutionError" =>
            /\ status = "failed"
            /\ next_node = None
            /\ state = NoneState
            /\ curr_state = NoneState
            /\ decision = None
            /\ ~last_run.completed)
    /\ [][error' = "NodeExecutionError" =>
            /\ status = "running"
            /\ next_node # "END"
            /\ visited' = visited
            /\ steps' = steps]_vars

C23_Witness ==
    /\ error = "NodeExecutionError"
    /\ status = "failed"
    /\ Len(visited) >= 2
    /\ visited[Len(visited)] = "Bull Researcher"

\* C24: every analyst invocation of a run is offered the tools of the
\* online_tools value that held when the run started, whatever the
\* configuration says by the time the analyst runs.
C24_ToolPolicyFixedForRun ==
    policy_log.offered \subseteq {policy_log.at_start}

\* C25: the Risk Judge ends the risk loop with a single resolution.  Its
\* invocation recalls at most n_matches (2) precedents, sets the judge
\* resolution, leaves the turn counter, the combined history, the three role
\* histories and the three current responses as they were, and hands over to
\* END; it is the last node of the run, so no debator or judge follows it.
C25_RiskJudgeTerminal ==
    /\ [][(status = "running" /\ next_node = "Risk Judge" /\ status' = "running") =>
            LET before == state.risk_debate_state
                after == state'.risk_debate_state
            IN  /\ visited' = Append(visited, "Risk Judge")
                /\ next_node' = "END"
                /\ after.count = before.count
                /\ after.history = before.history
                /\ after.risky_history = before.risky_history
                /\ after.safe_history = before.safe_history
                /\ after.neutral_history = before.neutral_history
                /\ after.current_risky_response = before.current_risky_response
                /\ after.current_safe_response = before.current_safe_response
                /\ after.current_neutral_response =
                        before.current_neutral_response
                /\ after.judge_decision = state'.final_trade_decision
                /\ after.judge_decision \in DecisionTexts
                /\ Len(past_memories'["risk_manager"].recalled) <= 2]_vars
    /\ [](\A i \in 1..Len(visited) :
            visited[i] = "Risk Judge" => i = Len(visited))

C25_Witness ==
    /\ Len(visited) > 0
    /\ visited[Len(visited)] = "Risk Judge"
    /\ next_node = "END"
    /\ Len(past_memories["risk_manager"].recalled) >= 1
    /\ state.risk_debate_state.count >= 3
    /\ state.risk_debate_state.judge_decision # EmptyDecision

\* The phase of the run a node belongs to.
Phase(node) ==
    IF \E a \in Analysts : node \in {AnalystNode(a), ToolNode(a)} THEN 1
    ELSE IF node \in Researchers THEN 2
    ELSE IF node = "Research Manager" THEN 3
    ELSE IF node = "Trader" THEN 4
    ELSE IF node \in Debators THEN 5
    ELSE 6

\* The nodes whose patch holds a message.
MessageWriters ==
    {AnalystNode(a) : a \in Analysts} \cup {ToolNode(a) : a \in Analysts}
        \cup {"Trader"}

\* C26: the node invocations of a run come one at a time, in the phase order
\* analysts, debate, research judge, trader, risk debate, risk judge.  The
\* debate opens only when every selected analyst has run and left its report,
\* the trader is next only with the research judge's resolution in the state,
\* the first risk debator only with the trader's plan in the state, and the
\* state holds the patch of every node invoked so far.
C26_SequentialPhases ==
    Active =>
        /\ steps = Len(visited)
        /\ \A i, j \in 1..Len(visited) :
                i < j => Phase(visited[i]) <= Phase(visited[j])
        /\ (\E i \in 1..Len(visited) : Phase(visited[i]) >= 2) =>
                \A k \in 1..Len(selected_analysts) :
                    /\ AnalystNode(selected_analysts[k])
                            \in {visited[i] : i \in 1..Len(visited)}
                    /\ state[ReportField(selected_analysts[k])] # EmptyStr
        /\ next_node = "Trader" =>
                /\ Last(visited) = "Research Manager"
                /\ state.investment_plan # EmptyStr
                /\ state.investment_debate_state.judge_decision
                        = state.investment_plan
        /\ next_node = "Risky Analyst" =>
                /\ Invocations({"Trader"}) = 1
                /\ state.trader_investment_plan # EmptyStr
        /\ Len(state.messages) = Invocations(MessageWriters)
        /\ Len(state.investment_debate_state.history) = Invocations(Researchers)
        /\ Len(state.risk_debate_state.history) = Invocations(Debators)

C26_Witness ==
    /\ status = "running"
    /\ selected_analysts = <<"market", "social", "news", "fundamentals">>
    /\ next_node = "Safe Analyst"
    /\ Invocations(Researchers) = 4
    /\ Invocations({ToolNode(a) : a \in Analysts}) >= 1

\* C27: the lookup key of every memory-consulting role is made of the four
\* reports of the state, market, sentiment, news and fundamentals, in that
\* order, so that a change of the fundamentals report alone changes the key
\* of every role, the risk judge included.
C27_SituationFromFourReports ==
    Active =>
        \A r \in Roles :
            past_memories[r] # NotConsulted =>
                past_memories[r].situation =
                    <<state.market_report, state.sentiment_report,
                      state.news_report, state.fundamentals_report>>

\* The records of a store.
Records(store) == {store[i] : i \in 1..Len(store)}

\* C28: the five role memories are five separate stores.  What a node recalls
\* in a run are records of its own role's memory, a remember changes the
\* memory of its role and no other, and a learn call appends to each role's
\* memory at most one record, holding that role's own lesson.
C28_MemoriesNotShared ==
    /\ [](\A r \in Roles :
            Records(past_memories[r].recalled) \subseteq Records(memory[r]))
    /\ [][(memory' # memory /\ mem_op'.op = "remember") =>
            \A r \in Roles \ {mem_op'.role} : memory'[r] = memory[r]]_vars
    /\ [][(memory' # memory /\ mem_op'.op = "learn") =>
            \A r \in Roles :
                /\ Len(memory'[r]) <= Len(memory[r]) + 1
                /\ SubSeq(memory'[r], 1, Len(memory[r])) = memory[r]
                /\ Len(memory'[r]) > Len(memory[r]) =>
                        Last(memory'[r]).recommendation = mem_op'.lessons[r]]_vars

\* A run after a learn call and a remember for the trader: the bull
\* researcher has recalled its own lesson, the trader its own two records.
C28_Witness ==
    /\ status = "running"
    /\ \A r \in Roles \ {"trader"} : Len(memory[r]) = 1
    /\ Len(memory["trader"]) = 2
    /\ Len(past_memories["bull"].recalled) = 1
    /\ past_memories["bull"].recalled[1].recommendation = "l1_bull"
    /\ Len(past_memories["trader"].recalled) = 2
    /\ {past_memories["trader"].recalled[i].recommendation : i \in 1..2}
            = {"l1_trader", "l2"}

\* C29: under either value of online_tools, every tool an analyst may ask for
\* is among the tools of that analyst's tool node; a tool call that is
\* waiting is waiting at the tool node of the analyst that made it, which
\* holds the tool, and no run fails on a tool that cannot be found.
C29_RequestedToolsResolvable ==
    /\ \A a \in Analysts, online_tools \in BOOLEAN :
            tools(a, online_tools) \subseteq tool_nodes(a)
    /\ error # "ToolNotFound"
    /\ (status = "running" /\ pending_call # NoCall) =>
            \E a \in Analysts :
                /\ Last(visited) = AnalystNode(a)
                /\ next_node = ToolNode(a)
                /\ pending_call \in tool_nodes(a)
    /\ (status = "running" /\ \E a \in Analysts : next_node = ToolNode(a)) =>
            pending_call # NoCall

\* The fundamentals tool node has resolved a call of a run in which the
\* analysts were offered the offline tools only.
C29_Witness ==
    /\ status = "running"
    /\ Len(visited) > 0
    /\ Last(visited) = "tools_fundamentals"
    /\ pending_call = NoCall
    /\ policy_log.offered = {FALSE}

\* The fields, other than the message log, that the patch of a node names.
Written(node) ==
    IF \E a \in Analysts : node = AnalystNode(a)
    THEN {ReportField(CHOOSE a \in Analysts : node = AnalystNode(a))}
    ELSE IF node \in Researchers THEN {"investment_debate_state"}
    ELSE IF node = "Research Manager"
    THEN {"investment_debate_state", "investment_plan"}
    ELSE IF node = "Trader" THEN {"trader_investment_plan", "sender"}
    ELSE IF node \in Debators THEN {"risk_debate_state"}
    ELSE IF node = "Risk Judge"
    THEN {"risk_debate_state", "final_trade_decision"}
    ELSE {}

\* C30: a node invocation merges the node's patch field by field.  After a
\* node that returns a message the log is the log before followed by that one
\* message, after any other node the log is as before; a field the patch
\* names holds the patch value in place of the one before; every other field
\* keeps its value.
C30_MergeByField ==
    [][(status = "running" /\ status' = "running" /\ visited' # visited) =>
        LET node == Last(visited')
            log == state.messages
        IN  /\ visited' = Append(visited, node)
            /\ IF node \in MessageWriters
               THEN /\ Len(state'.messages) = Len(log) + 1
                    /\ SubSeq(state'.messages, 1, Len(log)) = log
               ELSE state'.messages = log
            /\ \A f \in DOMAIN state \ ({"messages"} \cup Written(node)) :
                    state'[f] = state[f]
            /\ \A a \in Analysts :
                    node = AnalystNode(a) =>
                        /\ Last(state'.messages).sender = a
                        /\ state'[ReportField(a)] =
                                IF Last(state'.messages).tool_calls
                                THEN EmptyStr
                                ELSE Last(state'.messages).content
            /\ node = "Trader" =>
                    /\ Last(state'.messages).sender = "Trader"
                    /\ state'.trader_investment_plan =
                            Last(state'.messages).content
                    /\ state'.sender = "Trader"
            /\ node = "Research Manager" =>
                    state'.investment_plan =
                        state'.investment_debate_state.judge_decision
            /\ node = "Risk Judge" =>
                    state'.final_trade_decision =
                        state'.risk_debate_state.judge_decision]_vars

\* The trader has run after four analysts and a tool call: its message is the
\* sixth or later of the log, the reports and the plan before it are kept.
C30_Witness ==
    /\ status = "running"
    /\ Len(visited) > 0
    /\ Last(visited) = "Trader"
    /\ Len(state.messages) >= 6
    /\ state.messages[1].sender = "market"
    /\ Last(state.messages).sender = "Trader"
    /\ state.sender = "Trader"
    /\ state.market_report # EmptyStr
    /\ state.investment_plan # EmptyStr


\* The nodes invoked so far in the run.
Visited == {visited[i] : i \in 1..Len(visited)}

\* C31: every run starts from a new initial state, with both turn counters 0
\* and the message log, the histories, the reports, the plans and the
\* decision empty, and all that the state of a run holds was written by nodes
\* invoked in that run, whatever earlier runs on the orchestrator have left.
C31_FreshStatePerRun ==
    /\ [][(status # "running" /\ status' = "running") =>
            /\ state'.messages = <<>>
            /\ state'.company_of_interest = ticker'
            /\ state'.investment_debate_state = InitInvestDebateState
            /\ state'.risk_debate_state = InitRiskDebateState
            /\ state'.investment_debate_state.count = 0
            /\ state'.risk_debate_state.count = 0
            /\ \A a \in Analysts : state'[ReportField(a)] = EmptyStr
            /\ state'.investment_plan = EmptyStr
            /\ state'.trader_investment_plan = EmptyStr
            /\ state'.final_trade_decision = EmptyDecision]_vars
    /\ [](status = "running" =>
            /\ Len(state.messages) = Invocations(MessageWriters)
            /\ state.investment_debate_state.count = Invocations(Researchers)
            /\ Len(state.investment_debate_state.history)
                    = Invocations(Researchers)
            /\ state.risk_debate_state.count = Invocations(Debators)
            /\ Len(state.risk_debate_state.history) = Invocations(Debators)
            /\ \A a \in Analysts :
                    AnalystNode(a) \notin Visited =>
                        state[ReportField(a)] = EmptyStr
            /\ "Research Manager" \notin Visited =>
                    state.investment_plan = EmptyStr
            /\ "Trader" \notin Visited => state.trader_investment_plan = EmptyStr
            /\ "Risk Judge" \notin Visited =>
                    state.final_trade_decision = EmptyDecision)

\* A second run, for another date, has made its first debate turn while the
\* orchestrator holds the terminal state of the first run.
C31_Witness ==
    /\ status = "running"
    /\ last_run.completed
    /\ curr_state.investment_debate_state.count = 2
    /\ state.trade_date = "2024-05-11"
    /\ state.investment_debate_state.count = 1
    /\ next_node = "Bear Researcher"


\* C32: the log maps run dates to logged records.  A run that completes sets
\* the entry of its own date, new or in place of an older one, to a record
\* with the reports, the debate histories, the judge resolutions, the trader
\* plan and the final decision of the terminal state it returns, keeps the
\* entries of the other dates, and writes the whole log to the file of its
\* ticker and date; no other step changes the log or a file.
C32_LogByRunDate ==
    /\ [][IF status = "running" /\ status' = "done"
          THEN LET date == state.trade_date
                   entry == log_states_dict'[date]
                   final == curr_state'
               IN  /\ DOMAIN log_states_dict' = DOMAIN log_states_dict \cup {date}
                   /\ \A d \in DOMAIN log_states_dict \ {date} :
                        log_states_dict'[d] = log_states_dict[d]
                   /\ final.trade_date = date
                   /\ entry.market_report = final.market_report
                   /\ entry.sentiment_report = final.sentiment_report
                   /\ entry.news_report = final.news_report
                   /\ entry.fundamentals_report = final.fundamentals_report
                   /\ entry.investment_debate_state.history
                        = final.investment_debate_state.history
                   /\ entry.investment_debate_state.bull_history
                        = final.investment_debate_state.bull_history
                   /\ entry.investment_debate_state.bear_history
                        = final.investment_debate_state.bear_history
                   /\ entry.investment_debate_state.judge_decision
                        = final.investment_debate_state.judge_decision
                   /\ entry.risk_debate_state.history
                        = final.risk_debate_state.history
                   /\ entry.risk_debate_state.risky_history
                        = final.risk_debate_state.risky_history
                   /\ entry.risk_debate_state.safe_history
                        = final.risk_debate_state.safe_history
                   /\ entry.risk_debate_state.neutral_history
                        = final.risk_debate_state.neutral_history
                   /\ entry.risk_debate_state.judge_decision
                        = final.risk_debate_state.judge_decision
                   /\ entry.trader_investment_decision
                        = final.trader_investment_plan
                   /\ entry.final_trade_decision = final.final_trade_decision
                   /\ files'[<<ticker, date>>] = log_states_dict'
                   /\ \A k \in DOMAIN files \ {<<ticker, date>>} :
                        files'[k] = files[k]
          ELSE UNCHANGED <<log_states_dict, files>>]_vars
    /\ [](last_run.completed =>
            /\ curr_state.trade_date \in DOMAIN log_states_dict
            /\ log_states_dict[curr_state.trade_date].final_trade_decision
                    = curr_state.final_trade_decision
            /\ files[<<curr_state.company_of_interest, curr_state.trade_date>>]
                    = log_states_dict)

\* Three completed runs, the third for the date of the first with another
\* decision: the log holds both dates, the entry of the first date replaced.
C32_Witness ==
    /\ status = "done"
    /\ DOMAIN log_states_dict = RunDates
    /\ curr_state.trade_date = "2024-05-10"
    /\ last_run.replaced
    /\ log_states_dict["2024-05-10"].final_trade_decision = <<"w", "w">>
    /\ log_states_dict["2024-05-11"].final_trade_decision
            = <<"w", "MARK", "BUY">>
    /\ "2024-05-10" \in DOMAIN files[<<"NVDA", "2024-05-11">>]
    /\ files[<<"NVDA", "2024-05-11">>]["2024-05-10"].final_trade_decision
            # <<"w", "w">>


ByBull(argument) == argument[1] = "Bull Analyst"

ByBear(argument) == argument[1] = "Bear Analyst"

C34_TurnChangesOwnPart ==
    [][(status = "running" /\ status' = "running" /\ visited' # visited) =>
        LET node == Last(visited')
            rds == state.risk_debate_state
            rds2 == state'.risk_debate_state
            ids == state.investment_debate_state
            ids2 == state'.investment_debate_state
        IN  /\ node = "Safe Analyst" =>
                /\ rds2.current_safe_response[1] = "Safe Analyst"
                /\ rds2.history = Append(rds.history, rds2.current_safe_response)
                /\ rds2.safe_history =
                        Append(rds.safe_history, rds2.current_safe_response)
                /\ rds2.latest_speaker = "Safe"
                /\ rds2.count = rds.count + 1
                /\ rds2.risky_history = rds.risky_history
                /\ rds2.neutral_history = rds.neutral_history
                /\ rds2.current_risky_response = rds.current_risky_response
                /\ rds2.current_neutral_response = rds.current_neutral_response
                /\ \A f \in DOMAIN state \ {"risk_debate_state"} :
                        state'[f] = state[f]
            /\ node = "Bull Researcher" =>
                /\ ids2.bear_history = ids.bear_history
                /\ ids2.bull_history =
                        Append(ids.bull_history, ids2.current_response)
                /\ \A f \in DOMAIN state \ {"investment_debate_state"} :
                        state'[f] = state[f]
            /\ node = "Bear Researcher" =>
                /\ ids2.bull_history = ids.bull_history
                /\ ids2.bear_history =
                        Append(ids.bear_history, ids2.current_response)
                /\ \A f \in DOMAIN state \ {"investment_debate_state"} :
                        state'[f] = state[f]]_vars

\* The second safe turn: the risky debator has spoken twice and the neutral
\* debator once before it, and what they said is still there.
C34_Witness ==
    /\ status = "running"
    /\ Len(visited) > 0
    /\ Last(visited) = "Safe Analyst"
    /\ Len(state.risk_debate_state.safe_history) = 2
    /\ Len(state.risk_debate_state.risky_history) = 2
    /\ Len(state.risk_debate_state.neutral_history) = 1
    /\ state.risk_debate_state.current_neutral_response[1] = "Neutral Analyst"
    /\ Len(state.investment_debate_state.bull_history) >= 1


\* The last message of the log that analyst a has produced.
LastOutput(a) ==
    LET log == state.messages
        own == {i \in 1..Len(log) : log[i].sender = a}
    IN  log[CHOOSE i \in own : \A j \in own : j <= i]

\* The router has moved on from analyst a.
AdvancedPast(a) ==
    /\ AnalystNode(a) \in Visited
    /\ next_node \notin {AnalystNode(a), ToolNode(a)}

\* C35: an analyst invocation writes its own report and the message log and
\* nothing else: the report is empty when the output asks for a tool and the
\* content of the output when it does not.  So once the router has moved on
\* from an analyst its report is the content of its last output, and it stays
\* so while the other analysts and the later nodes run.
C35_AnalystWritesOwnReport ==
    /\ [][(status = "running" /\ status' = "running" /\ visited' # visited) =>
            \A a \in Analysts :
                Last(visited') = AnalystNode(a) =>
                    LET result == Last(state'.messages)
                    IN  /\ state'.messages = Append(state.messages, result)
                        /\ result.sender = a
                        /\ state'[ReportField(a)] =
                                IF result.tool_calls THEN EmptyStr
                                                     ELSE result.content
                        /\ \A f \in DOMAIN state \ {"messages", ReportField(a)} :
                                state'[f] = state[f]]_vars
    /\ [](Active =>
            \A a \in Analysts :
                AdvancedPast(a) =>
                    /\ ~LastOutput(a).tool_calls
                    /\ state[ReportField(a)] = LastOutput(a).content
                    /\ state[ReportField(a)] # EmptyStr)

\* The fundamentals analyst has asked for a tool and its report is empty,
\* while the three analysts before it have their reports, the market analyst
\* after a tool call of its own.
C35_Witness ==
    /\ status = "running"
    /\ next_node = "tools_fundamentals"
    /\ state.fundamentals_report = EmptyStr
    /\ state.market_report # EmptyStr
    /\ state.sentiment_report # EmptyStr
    /\ state.news_report # EmptyStr
    /\ "tools_market" \in Visited


\* C36: a run that fails leaves what the orchestrator keeps between calls as
\* it was before the run.  From the start of a run on, every step other than
\* the one that completes it keeps the state held for learning, the log, the
\* log files and the role memories; so a learn call made after a failed run
\* that followed a completed one reads the terminal state of the completed
\* run and writes records built from its reports.
C36_FailedRunKeepsState ==
    /\ [][((status = "running" \/ status' = "running") /\ status' # "done") =>
            UNCHANGED <<curr_state, log_states_dict, files, memory>>]_vars
    /\ [](status = "failed" =>
            /\ error \in {"StepLimitExceeded", "NodeExecutionError"}
            /\ (curr_state # NoneState) = last_run.completed
            /\ last_run.completed =>
                /\ curr_state.final_trade_decision = last_run.full_signal
                /\ log_states_dict[curr_state.trade_date].final_trade_decision
                        = last_run.full_signal
            /\ (mem_op.op = "learn" /\ last_run.completed) =>
                /\ mem_op.state = curr_state
                /\ mem_op.error # "TypeError"
                /\ \A r \in Roles :
                    Len(memory[r]) > mem_op.before[r] =>
                        Last(memory[r]).situation = curr_situation(curr_state))

\* A learn call that wrote its five records after a run that failed at a
\* node, the run before it having completed.
C36_Witness ==
    /\ status = "failed"
    /\ error = "NodeExecutionError"
    /\ Len(visited) >= 3
    /\ last_run.completed
    /\ mem_op.op = "learn"
    /\ mem_op.error = None
    /\ \A r \in Roles : Len(memory[r]) = mem_op.before[r] + 1


\* C37: in the terminal state of a completed run the final decision text is
\* the resolution the risk judge stored in the risk debate state, the
\* latest-speaker tag is "Judge", and the label returned is what
\* process_signal makes of that very text (with the answer the fallback
\* classification gave, when it was asked).
C37_TerminalDecisionIsJudges ==
    status = "done" =>
        LET text == curr_state.final_trade_decision
        IN  /\ text = curr_state.risk_debate_state.judge_decision
            /\ text \in DecisionTexts
            /\ curr_state.risk_debate_state.latest_speaker = "Judge"
            /\ last_run.full_signal = text
            /\ IF last_run.fallback = NotAsked
               THEN \A fallback \in FallbackTexts :
                        decision = process_signal(text, fallback)
               ELSE decision = process_signal(text, last_run.fallback)

\* A completed debug-mode run whose judge resolved for BUY.
C37_Witness ==
    /\ status = "done"
    /\ debug
    /\ curr_state.risk_debate_state.judge_decision = <<"w", "MARK", "BUY">>
    /\ curr_state.risk_debate_state.count >= 3
    /\ decision = "BUY"


\* C38: every node of the risk phase works from the trader's plan: the plan
\* text a risk debator or the risk judge has read is the
\* trader_investment_plan the Trader node of the run wrote.
C38_RiskPhaseReadsTraderPlan ==
    Active =>
        \A n \in RiskNodes :
            plan_read[n] # NotRead =>
                /\ "Trader" \in Visited
                /\ plan_read[n] = state.trader_investment_plan

====
